---- MODULE Spec2Model ----
(***************************************************************************)
(* AgenticBI: the query-generation and execution pipeline.                 *)
(*                                                                         *)
(*   backend/models_config.py  model list, source catalog, prefix strip    *)
(*   backend/agent.py          run_agent, _call_vertex_ai                  *)
(*   backend/bq_client.py      get_mock_df, execute_sql                    *)
(*   backend/report_generator.py  _build_chart_html                        *)
(*   app.py                    session state, run_query, build_chart,      *)
(*                             the buttons                                 *)
(*                                                                         *)
(* Python values are tagged records, so that None, a str, a list, a dict   *)
(* and a DataFrame stay distinct and comparable.  A str is a sequence of   *)
(* tokens: identifiers are spelled character by character (str.replace     *)
(* works on them), other texts use one token per phrase.  The warning sign *)
(* of the two messages is written "(!)".                                   *)
(***************************************************************************)
EXTENDS Integers, Sequences, FiniteSets, TLC

\* ------------------------------------------------------------------ bounds

\* Identifier strings given to the prefix strip are built from at most this many pieces.
MaxPieces == 3

\* A session holds at most this many turns in its conversation log.
MaxTurns == 2

\* ------------------------------------------------------------------- state

VARIABLES
    messages,           \* st.session_state.messages
    last_df,            \* st.session_state.last_df
    last_result,        \* st.session_state.last_result
    pending_followup,   \* st.session_state.pending_followup
    email_status,       \* st.session_state.email_status
    cleared,            \* how many entries the Clear button dropped, until the log is written again
    boundary,           \* what the latest script run handed to the report or the email sender
    kpis,               \* the KPI cards the latest script run drew
    pc,                 \* where the script is: Idle, or inside run_query
    rq_question,        \* run_query: question
    rq_model_id,        \* run_query: model_id
    rq_source,          \* run_query: source
    rq_result,          \* run_query: result
    rq_sql,             \* run_query: the sql given to execute_sql
    rq_df,              \* run_query: df
    rq_err,             \* run_query: err
    exc,                \* the exception that left run_query, or None
    backend,            \* what the generative backend did in this turn
    store,              \* what the live store did in this turn
    path,               \* the positions this turn went through
    genCalls,           \* calls of run_agent in this turn
    execCalls,          \* calls of execute_sql in this turn
    apiCall,            \* the latest direct call of run_agent or execute_sql
    apiPinned,          \* an earlier offline call, remembered
    identifier,         \* the argument of get_bq_source_id
    stripped,           \* get_bq_source_id(identifier)
    restripped,         \* get_bq_source_id(stripped)
    stripStage,         \* "input", "once" or "twice"
    chartDf,            \* the table given to the two chart builders
    chartType,          \* the chart_type given to them
    chartX,             \* the x_col given to them
    chartY,             \* the y_col given to them
    pageAxes,           \* the axes build_chart draws
    reportAxes,         \* the axes _build_chart_html draws
    chartStage          \* "input", or which of the two builders have run

\* ----------------------------------------------------------- Python values

None == [py |-> "None"]

Str(s) == [py |-> "str", s |-> s]

List(items) == [py |-> "list", items |-> items]

Dict(d) == [py |-> "dict", d |-> d]

DataFrame(columns, numeric, nrows) ==
    [py |-> "DataFrame", columns |-> columns, numeric |-> numeric, nrows |-> nrows]

\* pd.DataFrame(): no columns, no rows.
EmptyDataFrame == DataFrame(<<>>, {}, 0)

\* df.empty: some axis has length 0.
IsEmptyFrame(df) == Len(df.columns) = 0 \/ df.nrows = 0

IsDict(v) == v.py = "dict"

IsStr(v) == v.py = "str"

\* a + b on two str values.
Concat(a, b) == Str(a.s \o b.s)

\* Truthiness of None or a str, as in `if err:`.
Truthy(v) == v # None /\ v # Str(<<>>)

\* d.get(key, default) on a dict.
PyGet(v, key, default) == IF key \in DOMAIN v.d THEN v.d[key] ELSE default

\* No direct call is in progress, or none is remembered.
NoApiCall == [fn |-> "none"]

\* str.replace(old, new): every non-overlapping occurrence, scanning from the left.
RECURSIVE Replace(_, _, _)
Replace(s, old, new) ==
    IF Len(s) < Len(old) THEN s
    ELSE IF SubSeq(s, 1, Len(old)) = old
         THEN new \o Replace(SubSeq(s, Len(old) + 1, Len(s)), old, new)
         ELSE <<Head(s)>> \o Replace(Tail(s), old, new)

\* ------------------------------------------------ backend/models_config.py

AVAILABLE_MODELS == <<
    [id |-> Str(<<"gemini-2.0-flash-001">>), label |-> Str(<<"Gemini 2.0 Flash">>)],
    [id |-> Str(<<"gemini-1.5-pro-002">>),   label |-> Str(<<"Gemini 1.5 Pro">>)],
    [id |-> Str(<<"gemini-1.5-flash-002">>), label |-> Str(<<"Gemini 1.5 Flash">>)],
    [id |-> Str(<<"gemini-1.0-pro-002">>),   label |-> Str(<<"Gemini 1.0 Pro">>)] >>

DEFAULT_MODEL_ID == Str(<<"gemini-2.0-flash-001">>)

get_model_by_id(model_id) ==
    IF \E i \in 1..Len(AVAILABLE_MODELS) : AVAILABLE_MODELS[i].id = model_id
    THEN LET i == CHOOSE j \in 1..Len(AVAILABLE_MODELS) :
                    /\ AVAILABLE_MODELS[j].id = model_id
                    /\ \A k \in 1..(j - 1) : AVAILABLE_MODELS[k].id # model_id
         IN  AVAILABLE_MODELS[i]
    ELSE AVAILABLE_MODELS[1]

\* The model id of the first model with the label, or the default id.
get_model_id_by_label(label) ==
    IF \E i \in 1..Len(AVAILABLE_MODELS) : AVAILABLE_MODELS[i].label = label
    THEN LET i == CHOOSE j \in 1..Len(AVAILABLE_MODELS) :
                    /\ AVAILABLE_MODELS[j].label = label
                    /\ \A k \in 1..(j - 1) : AVAILABLE_MODELS[k].label # label
         IN  AVAILABLE_MODELS[i].id
    ELSE DEFAULT_MODEL_ID

LocalPrefix == <<"l", "o", "c", "a", "l", "_">>

salesforce == <<"s", "a", "l", "e", "s", "f", "o", "r", "c", "e">>

netsuite == <<"n", "e", "t", "s", "u", "i", "t", "e">>

coupa == <<"c", "o", "u", "p", "a">>

workday == <<"w", "o", "r", "k", "d", "a", "y">>

jira == <<"j", "i", "r", "a">>

inhouse == <<"i", "n", "h", "o", "u", "s", "e">>

\* The catalog with a second local entry for jira in place of the one for inhouse.
DATA_SOURCES_inhouse_unpaired == <<
    [id |-> salesforce, icon |-> "(cloud)", label |-> "Salesforce", local |-> FALSE],
    [id |-> netsuite, icon |-> "(chart)", label |-> "NetSuite", local |-> FALSE],
    [id |-> coupa, icon |-> "(cart)", label |-> "Coupa", local |-> FALSE],
    [id |-> workday, icon |-> "(people)", label |-> "Workday", local |-> FALSE],
    [id |-> jira, icon |-> "(target)", label |-> "JIRA", local |-> FALSE],
    [id |-> inhouse, icon |-> "(office)", label |-> "In-House Systems", local |-> FALSE],
    [id |-> LocalPrefix \o salesforce, icon |-> "(disk)",
     label |-> "Local - Salesforce", local |-> TRUE],
    [id |-> LocalPrefix \o netsuite, icon |-> "(disk)",
     label |-> "Local - NetSuite", local |-> TRUE],
    [id |-> LocalPrefix \o coupa, icon |-> "(disk)",
     label |-> "Local - Coupa", local |-> TRUE],
    [id |-> LocalPrefix \o workday, icon |-> "(disk)",
     label |-> "Local - Workday", local |-> TRUE],
    [id |-> LocalPrefix \o jira, icon |-> "(disk)",
     label |-> "Local - JIRA", local |-> TRUE],
    [id |-> LocalPrefix \o jira \o <<"2">>, icon |-> "(disk)",
     label |-> "Local - In-House", local |-> TRUE] >>

DATA_SOURCES == <<
    [id |-> salesforce, icon |-> "(cloud)", label |-> "Salesforce", local |-> FALSE],
    [id |-> netsuite, icon |-> "(chart)", label |-> "NetSuite", local |-> FALSE],
    [id |-> coupa, icon |-> "(cart)", label |-> "Coupa", local |-> FALSE],
    [id |-> workday, icon |-> "(people)", label |-> "Workday", local |-> FALSE],
    [id |-> jira, icon |-> "(target)", label |-> "JIRA", local |-> FALSE],
    [id |-> inhouse, icon |-> "(office)", label |-> "In-House Systems", local |-> FALSE],
    [id |-> LocalPrefix \o salesforce, icon |-> "(disk)",
     label |-> "Local - Salesforce", local |-> TRUE],
    [id |-> LocalPrefix \o netsuite, icon |-> "(disk)",
     label |-> "Local - NetSuite", local |-> TRUE],
    [id |-> LocalPrefix \o coupa, icon |-> "(disk)",
     label |-> "Local - Coupa", local |-> TRUE],
    [id |-> LocalPrefix \o workday, icon |-> "(disk)",
     label |-> "Local - Workday", local |-> TRUE],
    [id |-> LocalPrefix \o jira, icon |-> "(disk)",
     label |-> "Local - JIRA", local |-> TRUE],
    [id |-> LocalPrefix \o inhouse, icon |-> "(disk)",
     label |-> "Local - In-House", local |-> TRUE] >>

\* The label of the selector: icon, a space, label.
FullLabel(source) == Str(<<source.icon, " ", source.label>>)

\* The lookup returning nothing for a label no source has.
get_source_by_label_or_none(label) ==
    LET hits == {i \in 1..Len(DATA_SOURCES) :
                    \/ FullLabel(DATA_SOURCES[i]) = label
                    \/ Str(<<DATA_SOURCES[i].label>>) = label}
    IN  IF hits = {}
        THEN None
        ELSE DATA_SOURCES[CHOOSE i \in hits : \A j \in hits : i <= j]

\* The first source whose full label or label is the one given, or the first
\* source of the catalog.
get_source_by_label(label) ==
    LET hits == {i \in 1..Len(DATA_SOURCES) :
                    \/ FullLabel(DATA_SOURCES[i]) = label
                    \/ Str(<<DATA_SOURCES[i].label>>) = label}
    IN  IF hits = {}
        THEN DATA_SOURCES[1]
        ELSE DATA_SOURCES[CHOOSE i \in hits : \A j \in hits : i <= j]

is_local_source(source) == source.local

get_bq_source_id(source_id) == Replace(source_id, LocalPrefix, <<>>)

\* ---------------------------------------------------- backend/bq_client.py

\* A one-token str.
S(t) == Str(<<t>>)

\* The fixture tables: column names in order, the numeric columns, the row count.
MOCK_DATA ==
    (salesforce :> DataFrame(
        <<S("stage"), S("deal_count"), S("total_value"), S("avg_days_in_stage")>>,
        {S("deal_count"), S("total_value"), S("avg_days_in_stage")}, 6)) @@
    (netsuite :> DataFrame(
        <<S("department"), S("total_amount"), S("transaction_count"), S("budget_remaining")>>,
        {S("total_amount"), S("transaction_count"), S("budget_remaining")}, 6)) @@
    (coupa :> DataFrame(
        <<S("supplier"), S("po_count"), S("total_spend"), S("avg_delivery_days")>>,
        {S("po_count"), S("total_spend"), S("avg_delivery_days")}, 6)) @@
    (workday :> DataFrame(
        <<S("department"), S("headcount"), S("avg_tenure_years"), S("attrition_rate")>>,
        {S("headcount"), S("avg_tenure_years"), S("attrition_rate")}, 6)) @@
    (jira :> DataFrame(
        <<S("project"), S("open_issues"), S("completed_sprints"), S("avg_velocity")>>,
        {S("open_issues"), S("completed_sprints"), S("avg_velocity")}, 6)) @@
    (inhouse :> DataFrame(
        <<S("metric_name"), S("current_value"), S("target_value"), S("trend")>>,
        {S("current_value"), S("target_value")}, 6))

\* The lookup without its default.
get_mock_df_no_default(base_source_id) ==
    IF base_source_id \in DOMAIN MOCK_DATA
    THEN MOCK_DATA[base_source_id]
    ELSE EmptyDataFrame

get_mock_df(base_source_id) ==
    IF base_source_id \in DOMAIN MOCK_DATA
    THEN MOCK_DATA[base_source_id]
    ELSE MOCK_DATA[salesforce]

\* The schema text of each system, one token per text.
schemas ==
    (salesforce :> S("schema: sf_opportunities, sf_leads, sf_cases")) @@
    (netsuite :> S("schema: ns_gl_transactions, ns_accounts_payable, ns_accounts_receivable")) @@
    (coupa :> S("schema: coupa_purchase_orders, coupa_invoices")) @@
    (workday :> S("schema: wd_employees, wd_time_off, wd_payroll")) @@
    (jira :> S("schema: jira_issues, jira_sprints")) @@
    (inhouse :> S("schema: app_product_metrics, app_api_logs, app_kpi_dashboard"))

get_schema_description(base_source_id) ==
    IF base_source_id \in DOMAIN schemas
    THEN schemas[base_source_id]
    ELSE schemas[salesforce]

MissingBigQueryMessage ==
    Str(<<"google-cloud-bigquery", " not installed. Run: ",
          "pip install google-cloud-bigquery">>)

\* What the live store can do with a query: the client library is missing
\* (ImportError), the call raises an exception whose str() is e after the
\* store had produced the rows of df, or it returns the table df.
ImportErrorOutcome == [kind |-> "ImportError", e |-> Str(<<>>), df |-> EmptyDataFrame]

RaiseOutcome(e, df) == [kind |-> "raise", e |-> e, df |-> df]

TableOutcome(df) == [kind |-> "table", e |-> Str(<<>>), df |-> df]

\* The except branch handing back the rows fetched before the exception.
ExecuteSqlLiveKeepsRows(sql, outcome) ==
    CASE outcome.kind = "table" -> <<outcome.df, None>>
      [] outcome.kind = "ImportError" -> <<EmptyDataFrame, MissingBigQueryMessage>>
      [] OTHER -> <<outcome.df, outcome.e>>

\* The first except clause left out: the ImportError is reported by its text,
\* as any other exception is.
ExecuteSqlLiveNoImportErrorClause(sql, outcome) ==
    CASE outcome.kind = "table" -> <<outcome.df, None>>
      [] outcome.kind = "ImportError" -> <<EmptyDataFrame, S("No module named 'google'")>>
      [] OTHER -> <<EmptyDataFrame, outcome.e>>

\* The try block of execute_sql, given what the live store did: <<df, err>>.
ExecuteSqlLive(sql, outcome) ==
    CASE outcome.kind = "table" -> <<outcome.df, None>>
      [] outcome.kind = "ImportError" -> <<EmptyDataFrame, MissingBigQueryMessage>>
      [] OTHER -> <<EmptyDataFrame, outcome.e>>

\* The offline path reading its sql argument: no rows for a comment.
execute_sql_reading_sql(sql, source_id, question, is_local, outcome) ==
    LET base_id == Replace(source_id, LocalPrefix, <<>>)
    IN  IF is_local
        THEN IF sql = S("-- Error generating SQL")
             THEN <<EmptyDataFrame, None>>
             ELSE <<get_mock_df(base_id), None>>
        ELSE ExecuteSqlLive(sql, outcome)

\* execute_sql(sql, source_id, question, is_local): <<df, err>>.
execute_sql(sql, source_id, question, is_local, outcome) ==
    LET base_id == Replace(source_id, LocalPrefix, <<>>)
    IN  IF is_local
        THEN <<get_mock_df(base_id), None>>
        ELSE ExecuteSqlLive(sql, outcome)

\* --------------------------------------------------------- backend/agent.py

PlanKeys == {"sql", "explanation", "chart_type", "x_col", "y_col", "followups"}

\* A plan dict with the six keys.
Plan(sql, explanation, chart_type, x_col, y_col, followups) ==
    Dict([k \in PlanKeys |->
            CASE k = "sql" -> sql
              [] k = "explanation" -> explanation
              [] k = "chart_type" -> chart_type
              [] k = "x_col" -> x_col
              [] k = "y_col" -> y_col
              [] OTHER -> followups])

LOCAL_RESPONSES ==
    (salesforce :> Plan(
        S("SELECT stage, COUNT(*) AS deal_count, SUM(amount) AS total_value FROM sf_opportunities"),
        S("I analysed the Salesforce opportunity pipeline."),
        S("bar"), S("stage"), S("total_value"),
        List(<<S("What is the average deal size by region?"),
               S("Show win rate trend over last 6 months"),
               S("Which sales rep has the highest close rate?")>>))) @@
    (netsuite :> Plan(
        S("SELECT department, SUM(amount) AS total_amount, COUNT(*) AS transaction_count FROM ns_gl_transactions"),
        S("NetSuite GL analysis shows Operations has the highest spend."),
        S("bar"), S("department"), S("total_amount"),
        List(<<S("Show accounts payable aging report"),
               S("Which vendors have overdue invoices?"),
               S("Monthly revenue vs expense trend")>>))) @@
    (coupa :> Plan(
        S("SELECT supplier, po_count, total_spend FROM coupa_purchase_orders"),
        S("Coupa procurement analysis: Global Parts is the top supplier."),
        S("bar"), S("supplier"), S("total_spend"),
        List(<<S("Which suppliers have the fastest delivery times?"),
               S("Show procurement spend by category"),
               S("List POs pending approval over $50K")>>))) @@
    (workday :> Plan(
        S("SELECT department, headcount, attrition_rate, avg_tenure_years FROM wd_employees"),
        S("Workday headcount analysis: Engineering is the largest team."),
        S("bar"), S("department"), S("headcount"),
        List(<<S("Which departments need to hire most urgently?"),
               S("Show payroll cost breakdown by department"),
               S("What is the time-off utilization rate?")>>))) @@
    (jira :> Plan(
        S("SELECT project, open_issues, completed_sprints, avg_velocity FROM jira_sprints"),
        S("JIRA project overview: Frontend has the most open issues."),
        S("bar"), S("project"), S("open_issues"),
        List(<<S("Which projects are behind schedule?"),
               S("Show sprint velocity trend for Platform team"),
               S("List critical/blocker issues across all projects")>>))) @@
    (inhouse :> Plan(
        S("SELECT metric_name, current_value, target_value FROM app_kpi_dashboard"),
        S("Internal KPI dashboard: Uptime is at 99.95%."),
        S("bar"), S("metric_name"), S("current_value"),
        List(<<S("Show API latency trend over last 30 days"),
               S("Which endpoints have the highest error rate?"),
               S("Compare current metrics vs last quarter")>>)))

SOURCE_NAMES ==
    (salesforce :> S("Salesforce CRM")) @@
    (netsuite :> S("NetSuite ERP")) @@
    (coupa :> S("Coupa Procurement")) @@
    (workday :> S("Workday HCM")) @@
    (jira :> S("JIRA Project Management")) @@
    (inhouse :> S("In-House Systems"))

\* The request _call_vertex_ai sends: the model, the system prompt built from
\* the source name and the schema text, and the question.
VertexRequest(question, model_id, base_source_id) ==
    [model_name |-> model_id,
     source_name |-> IF base_source_id \in DOMAIN SOURCE_NAMES
                     THEN SOURCE_NAMES[base_source_id]
                     ELSE Str(base_source_id),
     schema |-> get_schema_description(base_source_id),
     contents |-> Concat(S("Business question: "), question)]

\* A response text is a sequence of tokens: the fence (three backticks), the word "json",
\* white space (" " or "\n"), and documents.  A document that is a JSON value
\* is named in JsonDocuments; any other token is text that is not JSON.
Fence == "[fence]"

IsSpace(tok) == tok \in {" ", "\n"}

\* str.strip(): leading and trailing white space removed.
RECURSIVE LStrip(_)
LStrip(s) == IF s # <<>> /\ IsSpace(Head(s)) THEN LStrip(Tail(s)) ELSE s

RECURSIVE RStrip(_)
RStrip(s) ==
    IF s # <<>> /\ IsSpace(s[Len(s)]) THEN RStrip(SubSeq(s, 1, Len(s) - 1)) ELSE s

Strip(s) == RStrip(LStrip(s))

\* The opening pattern without the optional language word.
StripOpeningFenceNoLanguage(raw) ==
    IF raw # <<>> /\ Head(raw) = Fence THEN LStrip(Tail(raw)) ELSE raw

\* re.sub(r"^```(?:json)?\s*", "", raw)
StripOpeningFence(raw) ==
    IF raw # <<>> /\ Head(raw) = Fence
    THEN LET rest == Tail(raw)
         IN  IF rest # <<>> /\ Head(rest) = "json"
             THEN LStrip(Tail(rest))
             ELSE LStrip(rest)
    ELSE raw

\* re.sub(r"\s*```$", "", raw)
StripClosingFence(raw) ==
    IF raw # <<>> /\ raw[Len(raw)] = Fence
    THEN RStrip(SubSeq(raw, 1, Len(raw) - 1))
    ELSE raw

\* The JSON documents a response can hold, and the value json.loads gives each.
JsonDocuments ==
    ("{plan}" :> Plan(S("SELECT region, SUM(amount) AS total FROM sf_opportunities GROUP BY region"),
                      S("Revenue is concentrated in two regions."),
                      S("line"), S("region"), S("total"),
                      List(<<S("How did revenue change by quarter?")>>))) @@
    ("{sql only}" :> Dict([k \in {"sql"} |-> S("SELECT 1")])) @@
    ("{null explanation}" :> Plan(S("SELECT owner FROM sf_opportunities"), None,
                                  S("pie"), S("owner"), None, None)) @@
    ("{scatter chart}" :> Plan(S("SELECT amount, probability FROM sf_opportunities"),
                               S("Amount against probability."),
                               S("scatter"), S("amount"), S("probability"), List(<<>>))) @@
    ("[]" :> List(<<>>)) @@
    ("null" :> None)

\* json.loads(raw): white space around one document is allowed.
JsonLoadsOk(raw) == Len(Strip(raw)) = 1 /\ Strip(raw)[1] \in DOMAIN JsonDocuments

JsonLoads(raw) == JsonDocuments[Strip(raw)[1]]

\* str(e) of the JSONDecodeError json.loads raises on raw.
JsonDecodeError(raw) ==
    IF Strip(raw) # <<>> /\ Strip(raw)[1] \in DOMAIN JsonDocuments
    THEN S("Extra data: line 1 column 2 (char 1)")
    ELSE S("Expecting value: line 1 column 1 (char 0)")

\* What the generative backend can do with a request: some step of the try
\* block raises an exception whose str() is e, or generate_content returns a
\* response whose text is given.
BackendRaise(e) == [kind |-> "raise", e |-> e, text |-> <<>>]

BackendText(text) == [kind |-> "text", e |-> Str(<<>>), text |-> text]

\* The except branch with a fixed message in place of the exception's text.
DegradedPlanGenericError(e) ==
    Dict([k \in PlanKeys \cup {"error"} |->
            CASE k = "sql" -> S("-- Error generating SQL")
              [] k = "explanation" -> S("(!) Vertex AI error")
              [] k = "chart_type" -> S("bar")
              [] k = "x_col" -> Str(<<>>)
              [] k = "y_col" -> Str(<<>>)
              [] k = "followups" -> List(<<>>)
              [] OTHER -> S("generation failed")])

\* The plan of the except branch of _call_vertex_ai.
DegradedPlan(e) ==
    Dict([k \in PlanKeys \cup {"error"} |->
            CASE k = "sql" -> S("-- Error generating SQL")
              [] k = "explanation" -> Concat(S("(!) Vertex AI error: "), e)
              [] k = "chart_type" -> S("bar")
              [] k = "x_col" -> Str(<<>>)
              [] k = "y_col" -> Str(<<>>)
              [] k = "followups" -> List(<<>>)
              [] OTHER -> e])

_call_vertex_ai(question, model_id, base_source_id, outcome) ==
    IF outcome.kind = "raise"
    THEN DegradedPlan(outcome.e)
    ELSE LET raw == StripClosingFence(StripOpeningFence(Strip(outcome.text)))
         IN  IF JsonLoadsOk(raw)
             THEN JsonLoads(raw)
             ELSE DegradedPlan(JsonDecodeError(raw))

\* The lookup without the copy, the follow-ups of the shared dict having been
\* consumed by the caller of an earlier call.
LocalResponseShared(base_id) ==
    LET p == IF base_id \in DOMAIN LOCAL_RESPONSES
             THEN LOCAL_RESPONSES[base_id]
             ELSE LOCAL_RESPONSES[salesforce]
    IN  IF apiPinned = NoApiCall
        THEN p
        ELSE Dict([p.d EXCEPT !["followups"] = List(<<>>)])

\* LOCAL_RESPONSES.get(base_id, LOCAL_RESPONSES["salesforce"]).copy()
LocalResponse(base_id) ==
    IF base_id \in DOMAIN LOCAL_RESPONSES
    THEN LOCAL_RESPONSES[base_id]
    ELSE LOCAL_RESPONSES[salesforce]

\* run_agent(question, model_id, source_id, is_local); outcome is what the
\* backend does when it is called.
run_agent(question, model_id, source_id, is_local, outcome) ==
    LET base_id == Replace(source_id, LocalPrefix, <<>>)
    IN  IF is_local
        THEN LocalResponse(base_id)
        ELSE _call_vertex_ai(question, model_id, base_id, outcome)

\* ------------------------------------------------------------------ inputs

Questions == {S("What is the pipeline by stage?"), S("Show spend by supplier")}

ModelIds == {AVAILABLE_MODELS[1].id, AVAILABLE_MODELS[2].id}

\* The exceptions the backend call raises, by their str().
BackendErrors == {S("No module named 'vertexai'"), S("503 Service Unavailable")}

ResponseTexts ==
    { <<>>,
      <<"Sorry, I cannot answer that.">>,
      <<"{plan}">>,
      <<" ", "{plan}", "\n">>,
      <<Fence, "json", "\n", "{plan}", "\n", Fence>>,
      <<Fence, "\n", "{plan}", "\n", Fence, "\n">>,
      <<"{plan}", "\n", "Let me know if you need more.">>,
      <<"{sql only}">>,
      <<"{null explanation}">>,
      <<"{scatter chart}">>,
      <<"[]">>,
      <<"null">> }

\* The documents that are JSON objects with every field of a plan.
ObjectDocuments == {"{plan}", "{scatter chart}"}

\* An object in a code block: white space, the opening fence with or without
\* the word json, white space, the object, white space, the closing fence,
\* white space.
FencedTexts ==
    { pre \o open \o gap \o <<doc>> \o close \o <<Fence>> \o post :
        pre \in {<<>>, <<"\n">>},
        open \in {<<Fence>>, <<Fence, "json">>},
        gap \in {<<>>, <<"\n">>, <<" ", "\n">>},
        doc \in ObjectDocuments,
        close \in {<<>>, <<"\n">>},
        post \in {<<>>, <<" ">>} }

BackendOutcomes ==
    {BackendRaise(e) : e \in BackendErrors}
    \cup {BackendText(x) : x \in ResponseTexts \cup FencedTexts}

LiveTable == DataFrame(<<S("region"), S("total")>>, {S("total")}, 3)

NoRowsTable == DataFrame(<<S("region"), S("total")>>, {S("total")}, 0)

\* The exceptions the live store raises, by their str().
StoreErrors == {S("404 Not found: Table sf_opportunities"), Str(<<>>)}

StoreOutcomes ==
    {ImportErrorOutcome}
    \cup {RaiseOutcome(e, d) : e \in StoreErrors, d \in {EmptyDataFrame, LiveTable}}
    \cup {TableOutcome(d) : d \in {LiveTable, NoRowsTable}}

\* No external call was made.
NoCall == [kind |-> "none"]

\* ------------------------------------------------------------------ app.py

session == <<messages, last_df, last_result, pending_followup, email_status, cleared>>

frame == <<rq_question, rq_model_id, rq_source, rq_result, rq_sql, rq_df, rq_err,
           exc, backend, store, path, genCalls, execCalls>>

\* The sources and the external behaviours a session is run with.
SessionSources == {DATA_SOURCES[1], DATA_SOURCES[7], DATA_SOURCES[10]}

SessionBackendOutcomes ==
    { BackendRaise(S("503 Service Unavailable")),
      BackendText(<<>>),
      BackendText(<<Fence, "json", "\n", "{plan}", "\n", Fence>>),
      BackendText(<<"{null explanation}">>),
      BackendText(<<"[]">>) }

SessionStoreOutcomes ==
    { ImportErrorOutcome,
      RaiseOutcome(S("404 Not found: Table sf_opportunities"), LiveTable),
      RaiseOutcome(Str(<<>>), EmptyDataFrame),
      TableOutcome(LiveTable) }

api == <<apiCall, apiPinned>>

strip == <<identifier, stripped, restripped, stripStage>>

chart == <<chartDf, chartType, chartX, chartY, pageAxes, reportAxes, chartStage>>

vars == <<session, pc, frame, api, strip, chart, boundary, kpis>>

ApiIdle == apiCall = NoApiCall /\ apiPinned = NoApiCall

StripIdle ==
    identifier = <<>> /\ stripped = <<>> /\ restripped = <<>> /\ stripStage = "idle"

ChartIdle ==
    /\ chartDf = None /\ chartType = None /\ chartX = None /\ chartY = None
    /\ pageAxes = None /\ reportAxes = None /\ chartStage = "idle"

NoFrame ==
    /\ rq_question = None /\ rq_model_id = None /\ rq_source = None /\ rq_result = None
    /\ rq_sql = None /\ rq_df = None /\ rq_err = None /\ exc = None
    /\ backend = NoCall /\ store = NoCall
    /\ path = <<>> /\ genCalls = 0 /\ execCalls = 0

SessionInit ==
    /\ messages = <<>>
    /\ last_df = None
    /\ last_result = None
    /\ pending_followup = None
    /\ email_status = None
    /\ cleared = 0
    /\ boundary = None
    /\ kpis = None
    /\ pc = "Idle"
    /\ NoFrame

\* run_query is entered with (q, m, s) and calls run_agent.
EnterRunQuery(q, m, s) ==
    /\ rq_question' = q
    /\ rq_model_id' = m
    /\ rq_source' = s
    /\ pc' = "Generating"
    /\ path' = <<"Idle", "Generating">>
    /\ genCalls' = 1
    /\ execCalls' = 0
    /\ rq_result' = None /\ rq_sql' = None /\ rq_df' = None /\ rq_err' = None /\ exc' = None
    /\ backend' = NoCall /\ store' = NoCall

\* A submit that starts the conversation over.
SubmitStartsOver ==
    /\ pc = "Idle"
    /\ ~Truthy(pending_followup)
    /\ email_status = None
    /\ Len(messages) < 2 * MaxTurns
    /\ \E q \in Questions, m \in ModelIds, s \in SessionSources :
          EnterRunQuery(q, m, s)
    /\ messages' = <<>>
    /\ UNCHANGED <<last_df, last_result, pending_followup, email_status, cleared,
                   api, strip, chart, boundary, kpis>>

\* The form is submitted with a non-blank question.
Submit ==
    /\ pc = "Idle"
    /\ ~Truthy(pending_followup)
    /\ email_status = None
    /\ Len(messages) < 2 * MaxTurns
    /\ \E q \in Questions, m \in ModelIds, s \in SessionSources :
          EnterRunQuery(q, m, s)
    /\ UNCHANGED <<session, api, strip, chart, boundary, kpis>>

\* A pending follow-up is run at the next script run.
RunPendingFollowup ==
    /\ pc = "Idle"
    /\ Truthy(pending_followup)
    /\ pending_followup' = None
    /\ \E m \in ModelIds, s \in SessionSources :
          EnterRunQuery(pending_followup, m, s)
    /\ UNCHANGED <<messages, last_df, last_result, email_status, cleared, api, strip, chart, boundary, kpis>>

\* The sql of the plan already in the slot, when there is one.
SqlArgumentOfLastResult(r) ==
    IF last_result = None
    THEN PyGet(r, "sql", Str(<<>>))
    ELSE PyGet(last_result, "sql", Str(<<>>))

\* The sql argument of execute_sql: result.get("sql", "").
SqlArgument(r) == PyGet(r, "sql", Str(<<>>))

\* run_query returning early on a plan that carries an error.
CallExecuteSqlUnlessError(r) ==
    IF "error" \in DOMAIN r.d
    THEN /\ rq_sql' = None
         /\ execCalls' = execCalls
         /\ pc' = "Rendered"
         /\ path' = Append(path, "Rendered")
         /\ exc' = None
    ELSE /\ rq_sql' = PyGet(r, "sql", Str(<<>>))
         /\ execCalls' = execCalls + 1
         /\ pc' = "Executing"
         /\ path' = Append(path, "Executing")
         /\ exc' = None

\* run_query goes on to line 218 with the dict r: it evaluates r.get("sql", "")
\* and calls execute_sql with it.
CallExecuteSql(r) ==
    /\ rq_sql' = SqlArgument(r)
    /\ execCalls' = execCalls + 1
    /\ pc' = "Executing"
    /\ path' = Append(path, "Executing")
    /\ exc' = None

\* run_agent returns.  A result that is no dict has no get: AttributeError
\* leaves run_query before execute_sql is called.
GenerateReturns ==
    /\ pc = "Generating"
    /\ \E outcome \in IF is_local_source(rq_source) THEN {NoCall} ELSE SessionBackendOutcomes :
          LET r == run_agent(rq_question, rq_model_id, rq_source.id,
                             is_local_source(rq_source), outcome)
          IN  /\ backend' = outcome
              /\ rq_result' = r
              /\ IF IsDict(r)
                 THEN CallExecuteSql(r)
                 ELSE /\ rq_sql' = None
                      /\ execCalls' = execCalls
                      /\ pc' = "Failed"
                      /\ path' = Append(path, "Failed")
                      /\ exc' = S("AttributeError: object has no attribute 'get'")
    /\ UNCHANGED <<session, rq_question, rq_model_id, rq_source, rq_df, rq_err, store,
                   genCalls, api, strip, chart, boundary, kpis>>

\* The question logged under the agent's role.
UserMessageAsAgent(q) == [role |-> "ai", content |-> q]

UserMessage(q) == [role |-> "user", content |-> q]

AiMessage(content, model) == [role |-> "ai", content |-> content, model |-> model]

\* The "model" of the agent message.
ModelLabel(local, m) == IF local THEN S("Local Demo") ELSE get_model_by_id(m).label

QueryErrorSuffix(e) == Concat(S("\n\n(!) Query error: "), e)

\* execute_sql returns; run_query appends the two messages, sets the two
\* slots and, when err is truthy, appends the warning to the agent message.
\* A content that is None cannot be added to: TypeError, after the appends.
ExecuteReturns ==
    /\ pc = "Executing"
    /\ \E outcome \in IF is_local_source(rq_source) THEN {NoCall} ELSE SessionStoreOutcomes :
          LET r == execute_sql(rq_sql, rq_source.id, rq_question,
                               is_local_source(rq_source), outcome)
              content == PyGet(rq_result, "explanation", Str(<<>>))
              appended == messages \o
                  <<UserMessage(rq_question),
                    AiMessage(content, ModelLabel(is_local_source(rq_source), rq_model_id))>>
              n == Len(appended)
          IN  /\ store' = outcome
              /\ rq_df' = r[1]
              /\ rq_err' = r[2]
              /\ last_result' = rq_result
              /\ last_df' = IF r[2] = None THEN r[1] ELSE None
              /\ IF Truthy(r[2]) /\ ~IsStr(content)
                 THEN /\ messages' = appended
                      /\ pc' = "Failed"
                      /\ path' = Append(path, "Failed")
                      /\ exc' = S("TypeError: unsupported operand type(s) for +=")
                 ELSE /\ messages' =
                            IF Truthy(r[2])
                            THEN [appended EXCEPT ![n].content =
                                      Concat(content, QueryErrorSuffix(r[2]))]
                            ELSE appended
                      /\ pc' = "Rendered"
                      /\ path' = Append(path, "Rendered")
                      /\ exc' = None
    /\ cleared' = 0
    /\ UNCHANGED <<pending_followup, email_status, rq_question, rq_model_id, rq_source,
                   rq_result, rq_sql, backend, genCalls, execCalls, api, strip, chart, boundary, kpis>>

Digit(d) == <<"0", "1", "2", "3", "4", "5", "6", "7", "8", "9">>[d + 1]

\* The decimal digits of a natural number.
RECURSIVE Decimal(_)
Decimal(n) == IF n < 10 THEN <<Digit(n)>> ELSE Decimal(n \div 10) \o <<Digit(n % 10)>>

\* The digits in groups of three from the right, with commas between.
RECURSIVE Grouped(_)
Grouped(ds) ==
    IF Len(ds) <= 3
    THEN ds
    ELSE Grouped(SubSeq(ds, 1, Len(ds) - 3)) \o <<",">> \o SubSeq(ds, Len(ds) - 2, Len(ds))

\* f"{len(df):,}"
FormatCount(n) == Str(Grouped(Decimal(n)))

\* The card of a numeric column: its name as a title, its sum as the value.
ColumnKpi(col) ==
    [label |-> Str(<<"title of ">> \o col.s), value |-> Str(<<"sum of ">> \o col.s)]

\* The cards with one for every numeric column and no cut to three.
compute_kpis_every_number(df) ==
    LET nc == SelectSeq(df.columns, LAMBDA c : c \in df.numeric)
    IN  <<[label |-> S("Records"), value |-> FormatCount(df.nrows)]>>
        \o [i \in 1..Len(nc) |-> ColumnKpi(nc[i])]

\* compute_kpis(df): Records, then the first two numeric columns; three at most.
compute_kpis(df) ==
    LET nc == SelectSeq(df.columns, LAMBDA c : c \in df.numeric)
        firstTwo == SubSeq(nc, 1, IF Len(nc) < 2 THEN Len(nc) ELSE 2)
        all == <<[label |-> S("Records"), value |-> FormatCount(df.nrows)]>>
               \o [i \in 1..Len(firstTwo) |-> ColumnKpi(firstTwo[i])]
    IN  SubSeq(all, 1, IF Len(all) < 3 THEN Len(all) ELSE 3)

\* The KPI cards of the visualization panel: drawn for a table that has rows.
DrawKpis ==
    IF last_result # None /\ last_df # None /\ ~IsEmptyFrame(last_df)
    THEN List(compute_kpis(last_df))
    ELSE None

\* The content of the latest user entry of the log, or "".
LastQuestion ==
    LET users == {i \in 1..Len(messages) : messages[i].role = "user"}
    IN  IF users = {}
        THEN Str(<<>>)
        ELSE messages[CHOOSE i \in users : \A j \in users : j <= i].content

\* What the Download Report section gives generate_html_report.
ReportArguments ==
    [fn |-> "generate_html_report",
     question |-> LastQuestion,
     explanation |-> PyGet(last_result, "explanation", Str(<<>>)),
     sql |-> PyGet(last_result, "sql", Str(<<>>)),
     df |-> last_df,
     chart_type |-> PyGet(last_result, "chart_type", S("bar")),
     x_col |-> PyGet(last_result, "x_col", Str(<<>>)),
     y_col |-> PyGet(last_result, "y_col", Str(<<>>))]

\* What the Email Current Report button gives send_report_email.
EmailArguments ==
    [fn |-> "send_report_email",
     question |-> LastQuestion,
     explanation |-> PyGet(last_result, "explanation", Str(<<>>)),
     sql |-> PyGet(last_result, "sql", Str(<<>>))]

\* The visualization panel is drawn: with a plan and a table that has rows
\* the report is generated for the download button.
DrawPage ==
    IF last_result # None /\ last_df # None /\ ~IsEmptyFrame(last_df)
    THEN ReportArguments
    ELSE None

LeaveRunQuery ==
    /\ pc' = "Idle"
    /\ rq_question' = None /\ rq_model_id' = None /\ rq_source' = None /\ rq_result' = None
    /\ rq_sql' = None /\ rq_df' = None /\ rq_err' = None /\ exc' = None
    /\ backend' = NoCall /\ store' = NoCall
    /\ path' = <<>> /\ genCalls' = 0 /\ execCalls' = 0

\* st.rerun() after run_query: the page is drawn again from the session state.
Rerun ==
    /\ pc = "Rendered"
    /\ LeaveRunQuery
    /\ boundary' = DrawPage
    /\ kpis' = DrawKpis
    /\ UNCHANGED <<session, api, strip, chart>>

\* The script run ended with the exception; the next interaction runs the
\* script again on the session state as the exception left it.
RerunAfterException ==
    /\ pc = "Failed"
    /\ LeaveRunQuery
    /\ boundary' = DrawPage
    /\ kpis' = DrawKpis
    /\ UNCHANGED <<session, api, strip, chart>>

\* A follow-up button of the current plan is pressed.
SelectFollowup ==
    /\ pc = "Idle"
    /\ ~Truthy(pending_followup)
    /\ email_status = None
    /\ Len(messages) < 2 * MaxTurns
    /\ last_result # None
    /\ LET followups == PyGet(last_result, "followups", List(<<>>))
       IN  /\ followups.py = "list"
           /\ \E i \in 1..Len(followups.items) : pending_followup' = followups.items[i]
    /\ UNCHANGED <<messages, last_df, last_result, email_status, cleared, pc, frame, api, strip, chart, boundary, kpis>>

\* The button dropping the latest turn only.
ClearConversationDropsLatestTurn ==
    /\ pc = "Idle"
    /\ ~Truthy(pending_followup)
    /\ email_status = None
    /\ messages' = IF Len(messages) >= 2 THEN SubSeq(messages, 1, Len(messages) - 2) ELSE <<>>
    /\ last_df' = None
    /\ last_result' = None
    /\ cleared' = Len(messages) - Len(messages')
    /\ boundary' = None
    /\ kpis' = None
    /\ UNCHANGED <<pending_followup, email_status, pc, frame, api, strip, chart>>

\* The button emptying the log and the plan slot, the table staying.
ClearConversationKeepsTable ==
    /\ pc = "Idle"
    /\ ~Truthy(pending_followup)
    /\ email_status = None
    /\ messages' = <<>>
    /\ last_result' = None
    /\ cleared' = Len(messages)
    /\ boundary' = None
    /\ kpis' = None
    /\ UNCHANGED <<last_df, pending_followup, email_status, pc, frame, api, strip, chart>>

\* The Clear Conversation button: the log and both slots are emptied.
ClearConversation ==
    /\ pc = "Idle"
    /\ ~Truthy(pending_followup)
    /\ email_status = None
    /\ messages' = <<>>
    /\ last_df' = None
    /\ last_result' = None
    /\ cleared' = Len(messages)
    /\ boundary' = None
    /\ kpis' = None
    /\ UNCHANGED <<pending_followup, email_status, pc, frame, api, strip, chart>>

\* What is typed in the "Send report to" box, stripped.
EmailInputs == {Str(<<>>), S("ops@example.com")}

\* What send_report_email returns: (success, msg).
SendOutcomes ==
    { [ok |-> TRUE, msg |-> S("Report sent")],
      [ok |-> FALSE, msg |-> S("Email not configured")] }

\* The Email Current Report button: the report of the plan in the slot is sent
\* when there is one and an address was typed; with no address the status is
\* the request to enter one.  Only email_status is written.
EmailReport ==
    /\ pc = "Idle"
    /\ ~Truthy(pending_followup)
    /\ email_status = None
    /\ \E email_to \in EmailInputs :
          \/ /\ last_result # None
             /\ DOMAIN last_result.d # {}
             /\ Truthy(email_to)
             /\ \E sent \in SendOutcomes : email_status' = sent
             /\ boundary' = EmailArguments
          \/ /\ ~Truthy(email_to)
             /\ email_status' = [ok |-> FALSE, msg |-> S("(!) Please enter an email address")]
             /\ boundary' = None
    /\ UNCHANGED <<messages, last_df, last_result, pending_followup, cleared, pc, frame,
                   api, strip, chart, kpis>>

\* The script run after st.rerun(): the status is shown once and reset.
ShowEmailStatus ==
    /\ pc = "Idle"
    /\ email_status # None
    /\ email_status' = None
    /\ boundary' = DrawPage
    /\ kpis' = DrawKpis
    /\ UNCHANGED <<messages, last_df, last_result, pending_followup, cleared, pc, frame,
                   api, strip, chart>>

Init == SessionInit /\ ApiIdle /\ StripIdle /\ ChartIdle

Next ==
    \/ Submit
    \/ RunPendingFollowup
    \/ GenerateReturns
    \/ ExecuteReturns
    \/ Rerun
    \/ RerunAfterException
    \/ SelectFollowup
    \/ ClearConversation
    \/ EmailReport
    \/ ShowEmailStatus

Spec == Init /\ [][Next]_vars

\* ----------------------------------------------- direct calls of the functions

\* Source identifiers given to the functions: the catalog's, and two no system has.
UnknownSystem == <<"s", "a", "p">>

SourceIds ==
    {DATA_SOURCES[i].id : i \in 1..Len(DATA_SOURCES)}
    \cup {UnknownSystem, LocalPrefix \o UnknownSystem}

LocalSourceIds ==
    {DATA_SOURCES[i].id : i \in {j \in 1..Len(DATA_SOURCES) : DATA_SOURCES[j].local}}

\* The identifiers the live path is called with.
LiveCallSourceIds == {salesforce, LocalPrefix \o workday, UnknownSystem}

SqlTexts == {Str(<<>>), S("SELECT 1"), S("-- Error generating SQL")}

\* run_agent going to the backend for a source it has no offline plan for.
RunAgentRequestsUnknownGoesLive(question, model_id, source_id, is_local) ==
    LET base_id == Replace(source_id, LocalPrefix, <<>>)
    IN  IF is_local /\ base_id \in DOMAIN LOCAL_RESPONSES
        THEN <<>>
        ELSE <<VertexRequest(question, model_id, base_id)>>

\* The requests run_agent sends to the generative backend: none on the
\* offline path, which returns before _call_vertex_ai is called.
RunAgentRequests(question, model_id, source_id, is_local) ==
    LET base_id == Replace(source_id, LocalPrefix, <<>>)
    IN  IF is_local
        THEN <<>>
        ELSE <<VertexRequest(question, model_id, base_id)>>

\* client.query(sql)
BigQueryQuery(sql) == [client |-> "bigquery.Client", query |-> sql]

\* The queries execute_sql sends to the live store: none on the offline
\* path, which returns before the client is made.
ExecuteSqlRequests(sql, source_id, question, is_local) ==
    IF is_local THEN <<>> ELSE <<BigQueryQuery(sql)>>

RunAgentCall(q, m, s, local, outcome) ==
    [fn |-> "run_agent", question |-> q, model_id |-> m, source_id |-> s,
     is_local |-> local, outcome |-> outcome,
     requests |-> RunAgentRequests(q, m, s, local),
     plan |-> run_agent(q, m, s, local, outcome)]

ExecuteSqlCall(text, s, q, local, outcome) ==
    [fn |-> "execute_sql", sql |-> text, source_id |-> s, question |-> q,
     is_local |-> local, outcome |-> outcome,
     requests |-> ExecuteSqlRequests(text, s, q, local),
     df |-> execute_sql(text, s, q, local, outcome)[1],
     err |-> execute_sql(text, s, q, local, outcome)[2]]

\* run_agent is called on the offline path.
CallRunAgentOffline ==
    /\ apiCall = NoApiCall
    /\ \E q \in Questions, m \in ModelIds, s \in SourceIds :
          apiCall' = RunAgentCall(q, m, s, TRUE, NoCall)
    /\ UNCHANGED <<session, pc, frame, strip, apiPinned, chart, boundary, kpis>>

\* run_agent is called on the live path, and the backend does any of its things.
CallRunAgentLive ==
    /\ apiCall = NoApiCall
    /\ \E q \in Questions, m \in ModelIds, s \in LiveCallSourceIds,
          outcome \in BackendOutcomes :
          apiCall' = RunAgentCall(q, m, s, FALSE, outcome)
    /\ UNCHANGED <<session, pc, frame, strip, apiPinned, chart, boundary, kpis>>

CallExecuteSqlOffline ==
    /\ apiCall = NoApiCall
    /\ \E text \in SqlTexts, s \in SourceIds, q \in Questions :
          apiCall' = ExecuteSqlCall(text, s, q, TRUE, NoCall)
    /\ UNCHANGED <<session, pc, frame, strip, apiPinned, chart, boundary, kpis>>

CallExecuteSqlLive ==
    /\ apiCall = NoApiCall
    /\ \E text \in SqlTexts, s \in LiveCallSourceIds, q \in Questions,
          outcome \in StoreOutcomes :
          apiCall' = ExecuteSqlCall(text, s, q, FALSE, outcome)
    /\ UNCHANGED <<session, pc, frame, strip, apiPinned, chart, boundary, kpis>>

\* The labels given to get_source_by_label: those of the selector, the bare
\* labels, and labels no source has.
SourceLabelInputs ==
    {FullLabel(DATA_SOURCES[i]) : i \in 1..Len(DATA_SOURCES)}
    \cup {Str(<<DATA_SOURCES[i].label>>) : i \in 1..Len(DATA_SOURCES)}
    \cup {S("SAP"), Str(<<"(disk)", " ", "SAP">>), Str(<<>>), S("salesforce")}

\* The ids given to get_model_by_id, two of them of no model.
ModelIdInputs ==
    {AVAILABLE_MODELS[i].id : i \in 1..Len(AVAILABLE_MODELS)}
    \cup {S("gemini-3.0-ultra"), Str(<<>>)}

\* The labels given to get_model_id_by_label, three of them of no model.
ModelLabelInputs ==
    {AVAILABLE_MODELS[i].label : i \in 1..Len(AVAILABLE_MODELS)}
    \cup {S("Gemini 3.0 Ultra"), Str(<<>>), S("gemini-1.5-pro-002")}

\* The base identifiers given to get_schema_description.
BaseIdInputs == {Replace(s, LocalPrefix, <<>>) : s \in SourceIds} \cup {<<>>}

CallGetSourceByLabel ==
    /\ apiCall = NoApiCall
    /\ \E label \in SourceLabelInputs :
          apiCall' = [fn |-> "get_source_by_label", label |-> label,
                      source |-> get_source_by_label(label)]
    /\ UNCHANGED <<session, pc, frame, strip, apiPinned, chart, boundary, kpis>>

CallGetModelById ==
    /\ apiCall = NoApiCall
    /\ \E model_id \in ModelIdInputs :
          apiCall' = [fn |-> "get_model_by_id", model_id |-> model_id,
                      model |-> get_model_by_id(model_id)]
    /\ UNCHANGED <<session, pc, frame, strip, apiPinned, chart, boundary, kpis>>

CallGetModelIdByLabel ==
    /\ apiCall = NoApiCall
    /\ \E label \in ModelLabelInputs :
          apiCall' = [fn |-> "get_model_id_by_label", label |-> label,
                      model_id |-> get_model_id_by_label(label)]
    /\ UNCHANGED <<session, pc, frame, strip, apiPinned, chart, boundary, kpis>>

CallGetSchemaDescription ==
    /\ apiCall = NoApiCall
    /\ \E base_source_id \in BaseIdInputs :
          apiCall' = [fn |-> "get_schema_description", base_source_id |-> base_source_id,
                      text |-> get_schema_description(base_source_id)]
    /\ UNCHANGED <<session, pc, frame, strip, apiPinned, chart, boundary, kpis>>

\* The caller is done with the call.  An offline call may be remembered, to be
\* compared with the calls that follow; `followed` tells that another call was
\* made since.
CallReturns ==
    /\ apiCall # NoApiCall
    /\ apiCall' = NoApiCall
    /\ \/ /\ apiCall.fn \in {"run_agent", "execute_sql"}
          /\ apiCall.is_local
          /\ apiPinned' = [call |-> apiCall, followed |-> FALSE]
       \/ apiPinned' = IF apiPinned = NoApiCall
                       THEN apiPinned
                       ELSE [apiPinned EXCEPT !.followed = TRUE]
    /\ UNCHANGED <<session, pc, frame, strip, chart, boundary, kpis>>

NextApi ==
    \/ CallRunAgentOffline
    \/ CallRunAgentLive
    \/ CallExecuteSqlOffline
    \/ CallExecuteSqlLive
    \/ CallGetSourceByLabel
    \/ CallGetModelById
    \/ CallGetModelIdByLabel
    \/ CallGetSchemaDescription
    \/ CallReturns

SpecApi == Init /\ [][NextApi]_vars

\* --------------------------------------------------- the prefix strip alone

IdPieces == {<<"l", "o">>, <<"c", "a", "l", "_">>, LocalPrefix, <<"d", "b">>}

\* The concatenations of at most n pieces.
RECURSIVE Concatenations(_)
Concatenations(n) ==
    IF n = 0 THEN {<<>>}
    ELSE Concatenations(n - 1)
         \cup {p \o w : p \in IdPieces, w \in Concatenations(n - 1)}

Identifiers == Concatenations(MaxPieces) \cup SourceIds

StripInit ==
    /\ identifier \in Identifiers
    /\ stripped = <<>>
    /\ restripped = <<>>
    /\ stripStage = "input"

StripOnce ==
    /\ stripStage = "input"
    /\ stripped' = get_bq_source_id(identifier)
    /\ stripStage' = "once"
    /\ UNCHANGED <<session, pc, frame, api, identifier, restripped, chart, boundary, kpis>>

StripAgain ==
    /\ stripStage = "once"
    /\ restripped' = get_bq_source_id(stripped)
    /\ stripStage' = "twice"
    /\ UNCHANGED <<session, pc, frame, api, identifier, stripped, chart, boundary, kpis>>

NextStrip == StripOnce \/ StripAgain

InitStrip == SessionInit /\ ApiIdle /\ StripInit /\ ChartIdle

SpecStrip == InitStrip /\ [][NextStrip]_vars

\* ------------------------------------------------------ the chart builders

\* The elements of a list.
Range(seq) == {seq[i] : i \in 1..Len(seq)}

\* df.select_dtypes("number").columns.tolist()
NumericColumns(df) == SelectSeq(df.columns, LAMBDA c : c \in df.numeric)

\* The figure a builder makes: px.pie, px.line or px.bar on the two axes.
Figure(chart_type, x_col, y_col) ==
    [py |-> "Figure",
     kind |-> IF chart_type = S("pie") THEN "pie"
              ELSE IF chart_type = S("line") THEN "line"
              ELSE "bar",
     x |-> x_col,
     y |-> y_col]

\* The builder of the page keeping a y_col that repeats the x axis.
build_chart_keeps_repeated_y(df, chart_type, x_col, y_col) ==
    IF df = None \/ IsEmptyFrame(df)
    THEN None
    ELSE LET cols == df.columns
             x == IF x_col \notin Range(cols) THEN cols[1] ELSE x_col
             nc == NumericColumns(df)
             y == IF y_col \notin Range(cols)
                  THEN IF nc # <<>> THEN nc[1] ELSE cols[Len(cols)]
                  ELSE y_col
         IN  Figure(chart_type, x, y)

\* The builder of the page choosing the y axis itself, whatever the plan asks.
build_chart_chooses_y(df, chart_type, x_col, y_col) ==
    IF df = None \/ IsEmptyFrame(df)
    THEN None
    ELSE LET cols == df.columns
             x == IF x_col \notin Range(cols) THEN cols[1] ELSE x_col
             nc == NumericColumns(df)
             y == IF nc # <<>> THEN nc[1] ELSE cols[Len(cols)]
         IN  Figure(chart_type, x, y)

\* app.py build_chart: None without a table or with an empty one.
build_chart(df, chart_type, x_col, y_col) ==
    IF df = None \/ IsEmptyFrame(df)
    THEN None
    ELSE LET cols == df.columns
             x == IF x_col \notin Range(cols) THEN cols[1] ELSE x_col
             nc == NumericColumns(df)
             y == IF y_col \notin Range(cols) \/ y_col = x
                  THEN IF nc # <<>> THEN nc[1] ELSE cols[Len(cols)]
                  ELSE y_col
         IN  Figure(chart_type, x, y)

\* report_generator.py _build_chart_html: "" without a table or with an empty
\* one, else the HTML of the figure, modelled by the figure.
_build_chart_html(df, chart_type, x_col, y_col) ==
    IF df = None \/ IsEmptyFrame(df)
    THEN Str(<<>>)
    ELSE LET cols == df.columns
             x == IF x_col \notin Range(cols) THEN cols[1] ELSE x_col
             nc == NumericColumns(df)
             y == IF y_col \notin Range(cols) \/ y_col = x
                  THEN IF nc # <<>> THEN nc[1] ELSE cols[Len(cols)]
                  ELSE y_col
         IN  Figure(chart_type, x, y)

\* Tables without a numeric column, and with one column only.
TextOnlyTable == DataFrame(<<S("owner"), S("status")>>, {}, 2)

OneNumberTable == DataFrame(<<S("n")>>, {S("n")}, 1)

OneTextTable == DataFrame(<<S("owner")>>, {}, 1)

\* A table whose first column is numeric.
NumbersFirstTable == DataFrame(<<S("amount"), S("owner"), S("probability")>>,
                               {S("amount"), S("probability")}, 3)

ChartTables ==
    {MOCK_DATA[b] : b \in DOMAIN MOCK_DATA}
    \cup {LiveTable, NoRowsTable, EmptyDataFrame, None,
          TextOnlyTable, OneNumberTable, OneTextTable, NumbersFirstTable}

\* The x_col and y_col a plan can ask for on a table: its columns, the empty
\* name of the degraded plan, a null, and a name the table does not have.
AxisNames(df) ==
    (IF df = None THEN {} ELSE Range(df.columns))
    \cup {Str(<<>>), None, S("missing")}

ChartTypeInputs == {S("bar"), S("line"), S("pie"), S("scatter"), None}

ChartInit ==
    /\ chartDf \in ChartTables
    /\ chartType \in ChartTypeInputs
    /\ chartX \in AxisNames(chartDf)
    /\ chartY \in AxisNames(chartDf)
    /\ pageAxes = None
    /\ reportAxes = None
    /\ chartStage = "input"

\* The page draws the chart.
DrawPageChart ==
    /\ chartStage = "input"
    /\ pageAxes' = build_chart(chartDf, chartType, chartX, chartY)
    /\ chartStage' = "page"
    /\ UNCHANGED <<session, pc, frame, api, strip, chartDf, chartType, chartX, chartY,
                   reportAxes, boundary, kpis>>

\* The report is generated for the same plan and table.
BuildReportChart ==
    /\ chartStage = "page"
    /\ reportAxes' = _build_chart_html(chartDf, chartType, chartX, chartY)
    /\ chartStage' = "report"
    /\ UNCHANGED <<session, pc, frame, api, strip, chartDf, chartType, chartX, chartY,
                   pageAxes, boundary, kpis>>

NextChart == DrawPageChart \/ BuildReportChart

InitChart == SessionInit /\ ApiIdle /\ StripIdle /\ ChartInit

SpecChart == InitChart /\ [][NextChart]_vars

\* ------------------------------------------------------------------ claims

\* The tokens sub occur in s, in a row.
Contains(s, sub) ==
    \E i \in 0..(Len(s.s) - Len(sub.s)) : SubSeq(s.s, i + 1, i + Len(sub.s)) = sub.s

\* The identifier begins with "local_".
HasLocalPrefix(x) ==
    Len(x) >= Len(LocalPrefix) /\ SubSeq(x, 1, Len(LocalPrefix)) = LocalPrefix

\* The identifier with its first Len("local_") characters cut off.
WithoutPrefix(x) == SubSeq(x, Len(LocalPrefix) + 1, Len(x))

ChartTypes == {S("bar"), S("line"), S("pie")}

FullPath == <<"Idle", "Generating", "Executing", "Rendered">>

\* C1: when the backend call raises, run_agent on the live path returns a plan
\* with the six fields, sql the placeholder comment, chart_type bar, x_col,
\* y_col and followups empty, and the exception's text both in the error
\* field and inside the explanation.
DegradedPlanOnBackendException ==
    (apiCall.fn = "run_agent" /\ ~apiCall.is_local /\ apiCall.outcome.kind = "raise") =>
        LET p == apiCall.plan
            e == apiCall.outcome.e
        IN  /\ IsDict(p)
            /\ PlanKeys \subseteq DOMAIN p.d
            /\ p.d["sql"] = S("-- Error generating SQL")
            /\ p.d["chart_type"] = S("bar")
            /\ p.d["x_col"] = Str(<<>>)
            /\ p.d["y_col"] = Str(<<>>)
            /\ p.d["followups"] = List(<<>>)
            /\ "error" \in DOMAIN p.d
            /\ p.d["error"] = e
            /\ IsStr(p.d["explanation"])
            /\ Contains(p.d["explanation"], e)

BackendExceptionHandled ==
    /\ apiCall.fn = "run_agent"
    /\ ~apiCall.is_local
    /\ apiCall.outcome = BackendRaise(S("503 Service Unavailable"))
    /\ apiCall.plan.d["error"] = S("503 Service Unavailable")

\* C2: whatever text the backend responds with, the submitted question
\* completes as a turn: run_agent returns a plan (a dict), no exception
\* leaves run_query, and the user and agent entries are in the log when
\* run_query is left.
EveryResponseTextGivesATurn ==
    backend.kind = "text" =>
        /\ exc = None
        /\ pc # "Failed"
        /\ pc \in {"Executing", "Rendered"} => IsDict(rq_result)
        /\ pc = "Rendered" =>
              /\ Len(messages) >= 2
              /\ messages[Len(messages) - 1] = UserMessage(rq_question)
              /\ messages[Len(messages)].role = "ai"

\* C3: on either path of execute_sql, a non-null error comes with the empty
\* table.
ErrorImpliesEmptyTable ==
    apiCall.fn = "execute_sql" =>
        (apiCall.err # None => apiCall.df = EmptyDataFrame)

RowsDroppedOnException ==
    /\ apiCall.fn = "execute_sql"
    /\ ~apiCall.is_local
    /\ apiCall.outcome.kind = "raise"
    /\ apiCall.outcome.df = LiveTable
    /\ apiCall.err # None
    /\ apiCall.df = EmptyDataFrame

StripIdempotent == stripStage = "twice" => restripped = stripped

\* C7: an identifier that does not begin with "local_" is returned unchanged.
StripLeavesUnprefixedUnchanged ==
    (stripStage \in {"once", "twice"} /\ ~HasLocalPrefix(identifier)) =>
        stripped = identifier

\* C8: a submitted question goes through Idle, Generating, Executing and
\* Rendered in that order, and is never left in a failed state, whatever the
\* generation and the execution do.
TurnAlwaysRendered ==
    /\ pc \in {"Idle", "Generating", "Executing", "Rendered"}
    /\ pc = "Rendered" => path = FullPath

\* Generation failed: run_agent returned the plan of its except branch.
GenerationFailed == IsDict(rq_result) /\ "error" \in DOMAIN rq_result.d

\* C9, as stated: when generation fails the turn does not enter Executing and
\* execute_sql is not called for it.
GenerationFailureSkipsExecutor ==
    GenerationFailed =>
        /\ execCalls = 0
        /\ \A i \in 1..Len(path) : path[i] # "Executing"

\* C9, amended: when generation fails the turn still enters Executing:
\* execute_sql is called once, with the placeholder sql of the degraded plan,
\* and the turn is then Rendered, its agent entry carrying the error.
GenerationFailureStillExecutes ==
    GenerationFailed =>
        /\ pc \in {"Executing", "Rendered"}
        /\ execCalls = 1
        /\ rq_sql = S("-- Error generating SQL")
        /\ pc = "Rendered" =>
              /\ path = FullPath
              /\ last_result = rq_result
              /\ Contains(messages[Len(messages)].content, rq_result.d["error"])

DegradedTurnRendered ==
    /\ GenerationFailed
    /\ pc = "Rendered"
    /\ backend.kind = "raise"
    /\ store.kind = "table"

\* The calls of a turn, by position.
TurnCallsInOrder ==
    /\ genCalls \in {0, 1}
    /\ execCalls \in {0, 1}
    /\ pc = "Idle" => (genCalls = 0 /\ execCalls = 0)
    /\ pc = "Generating" => (genCalls = 1 /\ execCalls = 0)
    /\ pc = "Executing" =>
          /\ genCalls = 1
          /\ execCalls = 1
          /\ rq_result = run_agent(rq_question, rq_model_id, rq_source.id,
                                   rq_source.local, backend)
          /\ IsDict(rq_result)
          /\ rq_sql = PyGet(rq_result, "sql", Str(<<>>))
    /\ pc = "Rendered" =>
          /\ genCalls = 1
          /\ execCalls = 1
          /\ path = FullPath
          /\ <<rq_df, rq_err>> = execute_sql(rq_sql, rq_source.id, rq_question,
                                             rq_source.local, store)
          /\ last_result = rq_result
          /\ last_df = IF rq_err = None THEN rq_df ELSE None

\* The log and the two slots change only when execute_sql has returned, or by
\* the clear button.
WritesAfterBothReturned ==
    (messages' # messages \/ last_result' # last_result \/ last_df' # last_df) =>
        \/ pc = "Executing" /\ genCalls = 1 /\ execCalls = 1
        \/ pc = "Idle" /\ messages' = <<>> /\ last_result' = None /\ last_df' = None

ExplanationOf(r) == PyGet(r, "explanation", Str(<<>>))

\* A step in which a submitted question leaves run_query.
QuestionDone == pc \in {"Generating", "Executing"} /\ pc' \in {"Rendered", "Failed"}

\* The step appends a user entry with the question and an agent entry whose
\* text is the explanation, followed by the warning that carries the error
\* whenever the error is not None.
AppendsQuestionAndAnswer ==
    LET n == Len(messages)
    IN  /\ Len(messages') = n + 2
        /\ SubSeq(messages', 1, n) = messages
        /\ messages'[n + 1] = UserMessage(rq_question)
        /\ messages'[n + 2].role = "ai"
        /\ IsDict(rq_result')
        /\ \/ /\ rq_err' = None
              /\ messages'[n + 2].content = ExplanationOf(rq_result')
           \/ /\ rq_err' # None
              /\ IsStr(ExplanationOf(rq_result'))
              /\ messages'[n + 2].content =
                    Concat(ExplanationOf(rq_result'), QueryErrorSuffix(rq_err'))

\* C11: each submitted question appends exactly two entries to the log, the
\* user entry with the question and then the agent entry; the agent entry's
\* text is the plan's explanation when the executor error is null, and the
\* explanation followed by the warning suffix with the error for every
\* non-null error.
QuestionAppendsExplanationAndWarning == [][QuestionDone => AppendsQuestionAndAnswer]_vars

\* C12: after every submitted question the two slots hold that turn's
\* artifacts and nothing of an earlier turn: the plan slot is the plan
\* generated in this turn, the table slot is this turn's table when the
\* executor error is null and absent otherwise.
SlotsHoldThisTurnsArtifacts ==
    pc \in {"Rendered", "Failed"} =>
        /\ last_result = IF IsDict(rq_result) THEN rq_result ELSE None
        /\ last_df = IF rq_df # None /\ rq_err = None THEN rq_df ELSE None

\* The sequence a is at the start of the sequence b.
IsPrefix(a, b) == Len(a) <= Len(b) /\ SubSeq(b, 1, Len(a)) = a

\* C13, as stated: the log is append-only over every session operation,
\* submit, follow-up, clear conversation and email report: the log of an
\* earlier state is a prefix of the log of every later state.
LogAppendOnly == [][IsPrefix(messages, messages')]_vars

\* A step of the Clear Conversation button.
ClearStep ==
    /\ pc = "Idle"
    /\ pc' = "Idle"
    /\ messages' = <<>>
    /\ last_df' = None
    /\ last_result' = None

\* C13, amended: the log is ordered and append-only between clears: every
\* step other than Clear Conversation leaves the earlier log as a prefix of
\* the later one (a submitted question or a follow-up appends, the email
\* report leaves the log as it is); Clear Conversation empties the log and
\* both slots.
LogAppendOnlyUntilCleared ==
    [][ \/ IsPrefix(messages, messages')
        \/ ClearStep ]_vars

LogClearedAfterTwoTurns ==
    /\ pc = "Idle"
    /\ cleared = 4
    /\ messages = <<>>
    /\ last_result = None
    /\ last_df = None

WarningMark == S("\n\n(!) Query error: ")

\* The store raised: the import of the client library, or the query.
ExecutionFault == store # NoCall /\ store.kind \in {"ImportError", "raise"}

\* C14: after a live turn whose execution raises a fault the executor error
\* is non-null, the table slot is absent, the agent entry of the turn holds
\* the warning suffix and the turn is rendered, so that the next question is
\* accepted; a following turn that succeeds sets the table slot and its
\* agent entry has no warning.
ExecutionFaultWarnsAndRecovers ==
    /\ (pc \in {"Rendered", "Failed"} /\ ExecutionFault) =>
          /\ pc = "Rendered"
          /\ rq_err # None
          /\ last_df = None
          /\ IsStr(messages[Len(messages)].content)
          /\ Contains(messages[Len(messages)].content, WarningMark)
    /\ (pc = "Rendered" /\ ~ExecutionFault) =>
          /\ rq_err = None
          /\ last_df = rq_df
          /\ last_df # None
          /\ IsStr(messages[Len(messages)].content) =>
                ~Contains(messages[Len(messages)].content, WarningMark)

\* The first column of the table that is numeric, or the last column when
\* none is.
FirstNumericOrLast(df) ==
    LET numbered == {i \in 1..Len(df.columns) : df.columns[i] \in df.numeric}
    IN  IF numbered = {}
        THEN df.columns[Len(df.columns)]
        ELSE df.columns[CHOOSE i \in numbered : \A j \in numbered : i <= j]

\* A chart was asked for on a table that has rows and columns.
ChartOfNonEmptyTable ==
    /\ chartStage \in {"page", "report"}
    /\ chartDf # None
    /\ ~IsEmptyFrame(chartDf)

\* C15: on a non-empty table, an x_col that is no column gives the first
\* column as x; a y_col that is no column, or is the resolved x, gives the
\* first numeric column as y, or the last column when no column is numeric;
\* an x_col and a y_col that are two different columns are kept; and the
\* builder of the report resolves the axes the builder of the page resolves.
AxisFallback ==
    /\ ChartOfNonEmptyTable =>
          LET cols == Range(chartDf.columns)
          IN  /\ pageAxes.py = "Figure"
              /\ pageAxes.x = IF chartX \in cols THEN chartX ELSE chartDf.columns[1]
              /\ pageAxes.y = IF chartY \in cols /\ chartY # pageAxes.x
                              THEN chartY
                              ELSE FirstNumericOrLast(chartDf)
              /\ (chartX \in cols /\ chartY \in cols /\ chartX # chartY) =>
                    (pageAxes.x = chartX /\ pageAxes.y = chartY)
    /\ (ChartOfNonEmptyTable /\ chartStage = "report") =>
          /\ reportAxes.py = "Figure"
          /\ reportAxes.x = pageAxes.x
          /\ reportAxes.y = pageAxes.y

\* Both axes asked for are the same column of a table with no numeric column:
\* both builders have put the last column on the y axis.
RepeatedAxisOnTextTable ==
    /\ chartStage = "report"
    /\ chartDf = TextOnlyTable
    /\ chartX = S("owner")
    /\ chartY = S("owner")
    /\ pageAxes.y = S("status")
    /\ reportAxes.y = S("status")

\* C16: every plan run_agent returns, offline or live, has a chart_type among
\* bar, line and pie: a parsed response without chart_type, or with one
\* outside the three, gives a plan whose chart_type is bar.
PlanChartTypeEnumerated ==
    (apiCall.fn = "run_agent" /\ IsDict(apiCall.plan)) =>
        /\ "chart_type" \in DOMAIN apiCall.plan.d
        /\ apiCall.plan.d["chart_type"] \in ChartTypes

\* C17: on the offline path neither run_agent nor execute_sql makes an
\* external call, for every question, model id and source id, those of no
\* known system included: no request goes to the generative backend and no
\* query to the live store.
OfflineMakesNoExternalCall ==
    (apiCall.fn \in {"run_agent", "execute_sql"} /\ apiCall.is_local) =>
        /\ apiCall.requests = <<>>
        /\ apiCall.outcome = NoCall

\* Both functions were called offline for the source of no known system.
OfflineUnknownSourceCalled ==
    /\ apiCall.fn = "run_agent"
    /\ apiCall.is_local
    /\ apiCall.source_id = LocalPrefix \o UnknownSystem
    /\ apiCall.requests = <<>>
    /\ apiPinned # NoApiCall
    /\ apiPinned.call.fn = "execute_sql"
    /\ apiPinned.call.source_id = UnknownSystem
    /\ apiPinned.call.requests = <<>>

\* The base identifiers of the catalog's systems.
KnownSystems ==
    {DATA_SOURCES[i].id : i \in {j \in 1..Len(DATA_SOURCES) : ~DATA_SOURCES[j].local}}

\* C18: for a source id whose base identifier is none of the known systems,
\* offline run_agent returns the salesforce plan, offline execute_sql the
\* salesforce fixture with a null error, and get_schema_description the
\* salesforce schema text.
UnknownSourceFallsBackToSalesforce ==
    /\ (/\ apiCall.fn = "run_agent"
        /\ apiCall.is_local
        /\ Replace(apiCall.source_id, LocalPrefix, <<>>) \notin KnownSystems)
       => apiCall.plan = LOCAL_RESPONSES[salesforce]
    /\ (/\ apiCall.fn = "execute_sql"
        /\ apiCall.is_local
        /\ Replace(apiCall.source_id, LocalPrefix, <<>>) \notin KnownSystems)
       => (apiCall.df = MOCK_DATA[salesforce] /\ apiCall.err = None)
    /\ (apiCall.fn = "get_schema_description" /\ apiCall.base_source_id \notin KnownSystems)
       => apiCall.text = schemas[salesforce]

UnknownSourceLookedUp ==
    /\ apiCall.fn = "get_schema_description"
    /\ apiCall.base_source_id = UnknownSystem
    /\ apiCall.text = schemas[salesforce]
    /\ apiPinned # NoApiCall
    /\ apiPinned.call.fn = "execute_sql"
    /\ apiPinned.call.source_id = LocalPrefix \o UnknownSystem
    /\ apiPinned.call.df = MOCK_DATA[salesforce]

\* C19: a label that matches no source gives the first source, a model id
\* that matches no model gives the first model, a label that matches no model
\* gives the default model id, and the default model id is the id of the
\* first model.
UnmatchedSelectorFallsBackToDefault ==
    /\ (/\ apiCall.fn = "get_source_by_label"
        /\ \A i \in 1..Len(DATA_SOURCES) :
              /\ apiCall.label # FullLabel(DATA_SOURCES[i])
              /\ apiCall.label # Str(<<DATA_SOURCES[i].label>>))
       => apiCall.source = DATA_SOURCES[1]
    /\ (/\ apiCall.fn = "get_model_by_id"
        /\ \A i \in 1..Len(AVAILABLE_MODELS) : apiCall.model_id # AVAILABLE_MODELS[i].id)
       => apiCall.model = AVAILABLE_MODELS[1]
    /\ (/\ apiCall.fn = "get_model_id_by_label"
        /\ \A i \in 1..Len(AVAILABLE_MODELS) : apiCall.label # AVAILABLE_MODELS[i].label)
       => /\ apiCall.model_id = DEFAULT_MODEL_ID
          /\ apiCall.model_id = AVAILABLE_MODELS[1].id

UnknownSourceLabelLookedUp ==
    /\ apiCall.fn = "get_source_by_label"
    /\ apiCall.label = S("SAP")
    /\ apiCall.source = DATA_SOURCES[1]

\* C20: in the catalog every live source has exactly one local source with
\* its base identifier and every local source exactly one live source; the
\* local flag of a source is true exactly when its id begins with "local_";
\* and no two sources have the same id.
RegistryPaired ==
    LET n == Len(DATA_SOURCES)
        live == {i \in 1..n : ~is_local_source(DATA_SOURCES[i])}
        local == {i \in 1..n : is_local_source(DATA_SOURCES[i])}
        base(i) == get_bq_source_id(DATA_SOURCES[i].id)
    IN  /\ \A i \in live : Cardinality({j \in local : base(j) = base(i)}) = 1
        /\ \A j \in local : Cardinality({i \in live : base(i) = base(j)}) = 1
        /\ \A i \in 1..n : is_local_source(DATA_SOURCES[i]) <=> HasLocalPrefix(DATA_SOURCES[i].id)
        /\ \A i, j \in 1..n : DATA_SOURCES[i].id = DATA_SOURCES[j].id => i = j
        /\ apiCall.fn = "get_source_by_label" =>
              \E i \in 1..n : apiCall.source = DATA_SOURCES[i]

\* A local source was looked up by its label, and its live counterpart is in
\* the catalog.
LocalSourceLookedUp ==
    /\ apiCall.fn = "get_source_by_label"
    /\ apiCall.label = FullLabel(DATA_SOURCES[12])
    /\ apiCall.source.id = LocalPrefix \o inhouse
    /\ apiCall.source.local
    /\ \E i \in 1..Len(DATA_SOURCES) :
          /\ ~DATA_SOURCES[i].local
          /\ DATA_SOURCES[i].id = get_bq_source_id(apiCall.source.id)

\* The error names the library that is missing and the command that installs it.
NamesMissingDependency(err) ==
    /\ IsStr(err)
    /\ Contains(err, S("google-cloud-bigquery"))
    /\ Contains(err, S("pip install google-cloud-bigquery"))

\* C21: on the live path, when the BigQuery client library cannot be
\* imported execute_sql returns the empty table with an error that names the
\* missing dependency and the remedy; any other exception gives its own text,
\* which is a different error; and the missing-dependency error comes from no
\* other cause.
MissingLibraryErrorDistinct ==
    apiCall.fn = "execute_sql" =>
        /\ (~apiCall.is_local /\ apiCall.outcome.kind = "ImportError") =>
              /\ apiCall.df = EmptyDataFrame
              /\ NamesMissingDependency(apiCall.err)
        /\ (~apiCall.is_local /\ apiCall.outcome.kind = "raise") =>
              /\ apiCall.err = apiCall.outcome.e
              /\ ~NamesMissingDependency(apiCall.err)
        /\ NamesMissingDependency(apiCall.err) =>
              (~apiCall.is_local /\ apiCall.outcome.kind = "ImportError")

MissingLibraryReported ==
    /\ apiCall.fn = "execute_sql"
    /\ ~apiCall.is_local
    /\ apiCall.outcome = ImportErrorOutcome
    /\ apiCall.df = EmptyDataFrame
    /\ apiCall.err = MissingBigQueryMessage

\* C22: in every state in which the report generator or the email sender was
\* invoked, also after a degraded plan or a failed execution, the question
\* and every field taken from the plan, explanation, sql, chart type, x_col
\* and y_col, is present and not null; empty values are allowed.
BoundaryFieldsNeverNull ==
    boundary # None =>
        /\ boundary.question # None
        /\ boundary.explanation # None
        /\ boundary.sql # None
        /\ boundary.fn = "generate_html_report" =>
              /\ boundary.chart_type # None
              /\ boundary.x_col # None
              /\ boundary.y_col # None

\* C23: a turn on local_salesforce, whatever the question, gives a plan with
\* chart_type bar and x_col stage and a table of 6 rows, and the page then
\* shows "Records" with the value "6" as its first KPI; every KPI list drawn
\* has from 1 to 3 entries.
LocalSalesforceScenario ==
    /\ (pc = "Rendered" /\ rq_source.id = LocalPrefix \o salesforce) =>
          /\ rq_result.d["chart_type"] = S("bar")
          /\ rq_result.d["x_col"] = S("stage")
          /\ rq_err = None
          /\ rq_df.nrows = 6
          /\ last_df = rq_df
          /\ last_df = MOCK_DATA[salesforce]
    /\ kpis # None =>
          /\ Len(kpis.items) \in 1..3
          /\ kpis.items[1].label = S("Records")
          /\ (pc = "Idle" /\ last_df = MOCK_DATA[salesforce]) =>
                kpis.items[1].value = S("6")

LocalSalesforcePageDrawn ==
    /\ pc = "Idle"
    /\ last_result = LOCAL_RESPONSES[salesforce]
    /\ last_df = MOCK_DATA[salesforce]
    /\ messages[Len(messages) - 1].content = S("Show spend by supplier")
    /\ kpis # None
    /\ Len(kpis.items) = 3
    /\ kpis.items[1] = [label |-> S("Records"), value |-> S("6")]

\* C24: a submitted question changes only the conversation log and the two
\* current-result slots.  Entering run_query and the call of run_agent leave
\* the log and the slots as they were; the return of execute_sql appends two
\* entries behind the entries already in the log, puts the plan in the slot
\* exactly as run_agent returned it, and leaves the follow-up slot and the
\* email status alone.  The registry, the schema texts, the offline plans and
\* the fixture tables are written by no statement of the program.
SubmitChangesLogAndSlotsOnly ==
    [][ /\ (pc = "Idle" /\ pc' = "Generating") =>
              UNCHANGED <<messages, last_df, last_result, email_status>>
        /\ pc = "Generating" =>
              UNCHANGED <<messages, last_df, last_result, pending_followup, email_status>>
        /\ pc = "Executing" =>
              /\ IsPrefix(messages, messages')
              /\ Len(messages') = Len(messages) + 2
              /\ rq_result' = rq_result
              /\ last_result' = rq_result
              /\ UNCHANGED <<pending_followup, email_status>>
      ]_vars

SecondTurnKeepsFirstTurn ==
    /\ pc = "Rendered"
    /\ Len(messages) = 4
    /\ Truthy(rq_err)
    /\ messages[2].content = LOCAL_RESPONSES[salesforce].d["explanation"]
    /\ last_result = rq_result
    /\ last_result # LOCAL_RESPONSES[salesforce]

\* C25: a response that is a JSON object in a code fence (opening fence with
\* or without the word json, closing fence, white space around them) is
\* parsed to the plan the object alone is parsed to; and the stripping leaves
\* an object that has no fence as it is.
ObjectIn(text) == CHOOSE doc \in ObjectDocuments : \E i \in 1..Len(text) : text[i] = doc

FencedObjectParsedAsBare ==
    (apiCall.fn = "run_agent" /\ ~apiCall.is_local /\ apiCall.outcome.kind = "text") =>
        LET text == apiCall.outcome.text
        IN  /\ text \in FencedTexts =>
                  /\ apiCall.plan = JsonDocuments[ObjectIn(text)]
                  /\ apiCall.plan = run_agent(apiCall.question, apiCall.model_id,
                                              apiCall.source_id, FALSE,
                                              BackendText(<<ObjectIn(text)>>))
            /\ (Len(text) = 1 /\ text[1] \in ObjectDocuments) =>
                  /\ StripClosingFence(StripOpeningFence(Strip(text))) = text
                  /\ apiCall.plan = JsonDocuments[text[1]]

FencedObjectParsed ==
    /\ apiCall.fn = "run_agent"
    /\ ~apiCall.is_local
    /\ apiCall.outcome.kind = "text"
    /\ apiCall.outcome.text = <<"\n", Fence, "json", " ", "\n", "{plan}", "\n", Fence, " ">>
    /\ apiCall.plan = JsonDocuments["{plan}"]
    /\ "error" \notin DOMAIN apiCall.plan.d

\* C26: in every state of a session, whatever the order of submits,
\* follow-ups and clears, a table in the table slot comes with a plan in the
\* plan slot, and both slots are empty whenever the log is empty.
TableSlotImpliesPlanSlot ==
    /\ last_df # None => last_result # None
    /\ messages = <<>> => (last_df = None /\ last_result = None)

\* A follow-up of the first turn's plan has been answered with a table.
FollowupTurnFilledBothSlots ==
    /\ pc = "Idle"
    /\ Len(messages) = 4
    /\ \E i \in 1..3 :
          messages[3].content = LOCAL_RESPONSES[salesforce].d["followups"].items[i]
    /\ last_df # None
    /\ last_result # None

\* C27: the log always has an even number of entries, user entry then agent
\* entry in turn; and whenever there is a plan in the plan slot, the latest
\* user entry, which is the question the report and the email carry, is the
\* question that plan was made for.  The plan and the log are written
\* together, from the question and the plan of one run_query, or emptied
\* together.
LogAlternates ==
    /\ Len(messages) % 2 = 0
    /\ \A i \in 1..Len(messages) :
          messages[i].role = IF i % 2 = 1 THEN "user" ELSE "ai"
    /\ last_result # None =>
          /\ Len(messages) >= 2
          /\ LastQuestion = messages[Len(messages) - 1].content

PlanWrittenWithItsQuestion ==
    /\ pc = "Generating" =>
          rq_result' = run_agent(rq_question, rq_model_id, rq_source.id,
                                 is_local_source(rq_source), backend')
    /\ (messages' # messages \/ last_result' # last_result) =>
          \/ messages' = <<>> /\ last_result' = None
          \/ /\ pc = "Executing"
             /\ last_result' = rq_result
             /\ Len(messages') = Len(messages) + 2
             /\ messages'[Len(messages') - 1] = [role |-> "user", content |-> rq_question]
             /\ LastQuestion' = rq_question

LatestUserEntryIsQuestionOfPlan == []LogAlternates /\ [][PlanWrittenWithItsQuestion]_vars

SecondQuestionIsTheReportQuestion ==
    /\ pc = "Idle"
    /\ Len(messages) = 4
    /\ last_result # None
    /\ messages[1].content # messages[3].content
    /\ boundary # None
    /\ boundary.question = messages[3].content

\* C28: a selected follow-up is submitted exactly once: the pending slot is
\* emptied as its turn is entered, the turn appends one user/agent pair for
\* it, the slot is empty when the turn ends, whether it ends well or with an
\* exception, and only a press of a follow-up button fills the slot again.
\* The questions typed in the form and the follow-ups of the plans are
\* different texts, so the question of a turn tells a follow-up turn.
FollowupTurn == rq_question # None /\ rq_question \notin Questions

FollowupStep ==
    /\ (pc = "Idle" /\ Truthy(pending_followup) /\ pc' = "Generating") =>
          /\ pending_followup' = None
          /\ rq_question' = pending_followup
    /\ (FollowupTurn /\ pc \in {"Generating", "Executing"}
                      /\ pc' \in {"Rendered", "Failed"}) =>
          /\ pending_followup' = None
          /\ Len(messages') = Len(messages) + 2
          /\ messages'[Len(messages') - 1] = [role |-> "user", content |-> rq_question]
          /\ messages'[Len(messages')].role = "ai"
    /\ (~Truthy(pending_followup) /\ Truthy(pending_followup')) =>
          (pc = "Idle" /\ pc' = "Idle")

FollowupSubmittedOnce == [][FollowupStep]_vars

\* C29: for every local source the x_col and the y_col of the offline plan
\* are two different columns of the fixture table of the same base
\* identifier, and y_col is a numeric one; so on the offline path both
\* builders draw the axes the plan asks for.
OfflinePlanAxesKept ==
    \A s \in LocalSourceIds :
        LET base == Replace(s, LocalPrefix, <<>>)
            plan == run_agent(S("any question"), DEFAULT_MODEL_ID, s, TRUE, NoCall)
            df == get_mock_df(base)
            x == plan.d["x_col"]
            y == plan.d["y_col"]
        IN  /\ x \in Range(df.columns)
            /\ y \in Range(df.columns)
            /\ x # y
            /\ y \in df.numeric
            /\ (chartStage \in {"page", "report"} /\ chartDf = df
                   /\ chartX = x /\ chartY = y) =>
                  /\ pageAxes.py = "Figure"
                  /\ pageAxes.x = x
                  /\ pageAxes.y = y
            /\ (chartStage = "report" /\ chartDf = df /\ chartX = x /\ chartY = y) =>
                  /\ reportAxes.py = "Figure"
                  /\ reportAxes.x = x
                  /\ reportAxes.y = y

WorkdayPlanDrawnAsAsked ==
    /\ chartStage = "report"
    /\ chartDf = MOCK_DATA[workday]
    /\ chartX = LOCAL_RESPONSES[workday].d["x_col"]
    /\ chartY = LOCAL_RESPONSES[workday].d["y_col"]
    /\ pageAxes.x = chartX
    /\ pageAxes.y = chartY
    /\ reportAxes.y = chartY

\* C30: for every table with rows and every x_col and y_col asked for, the
\* axes the builders resolve are columns of the table, and the y axis is not
\* the x axis when the table has two columns or more.
ResolvedAxesDistinctColumns ==
    ChartOfNonEmptyTable =>
        LET cols == Range(chartDf.columns)
        IN  /\ pageAxes.x \in cols
            /\ pageAxes.y \in cols
            /\ Len(chartDf.columns) >= 2 => pageAxes.y # pageAxes.x
            /\ chartStage = "report" =>
                  /\ reportAxes.x \in cols
                  /\ reportAxes.y \in cols
                  /\ Len(chartDf.columns) >= 2 => reportAxes.y # reportAxes.x

====
